---------------------------- MODULE Spec2Model ----------------------------
(***************************************************************************)
(* Model of src/Dashboard.py: a Streamlit script that loads a CSV file,    *)
(* draws a seeded sample (the Dataset), and renders one of four pages.     *)
(* Streamlit reruns the whole script on every widget interaction, so each  *)
(* action of the model is one interaction followed by one complete run of  *)
(* the script.                                                             *)
(*                                                                         *)
(* Text is a sequence of one-character strings, a CSV file is a sequence   *)
(* of lines of text, and a DataFrame is a record                           *)
(*   [columns, index, data]                                                *)
(* whose cells are typed: [t |-> "int", n |-> 12] or                       *)
(* [t |-> "str", s |-> <<"t","e","a">>].                                   *)
(*                                                                         *)
(* Scope of the model: cells are integers or non-empty text without line   *)
(* breaks (no missing values, no floats); the Dataset carries eight of the *)
(* source's columns.                                                       *)
(***************************************************************************)
EXTENDS Integers, Sequences, FiniteSets, TLC

(***************************************************************************)
(* Bounds of the model.                                                    *)
(***************************************************************************)
\* The number of rows the loader samples.  The script samples n=3001 rows
\* (src/Dashboard.py:8); the model scales the sample down.
SampleSize == 11

\* The largest number of countries selected at once in the multiselect.
MaxSelected == 2

(***************************************************************************)
(* Program constants.                                                      *)
(***************************************************************************)
\* sample(..., random_state=55054)
Seed == 55054
\* sample_df.head(10)
HeadRows == 10
\* value_counts().head(5)
TopN == 5

file_path == "Imports_Exports_Dataset.csv"

\* An export that writes over the file it was loaded from.
SourcePath == file_path

out_path == "Filtered_Data.csv"

\* A path with no file, and a file holding the given lines.
NoFile      == [exists |-> FALSE]
File(lines) == [exists |-> TRUE, lines |-> lines]

\* The value of a script variable the run did not assign.
Unbound  == [unbound |-> TRUE]
Bound(v) == "unbound" \notin DOMAIN v

(***************************************************************************)
(* Text.                                                                   *)
(***************************************************************************)
\* The characters the model uses, in ASCII order.
Alphabet ==
    << " ", "\"", ",", "0", "1", "2", "3", "4", "5", "6", "7", "8", "9",
       "A", "C", "E", "F", "I", "J", "K", "L", "M", "P", "Q", "R", "S",
       "U", "V", "W", "_", "a", "b", "c", "d", "e", "g", "h", "i", "j",
       "l", "m", "n", "o", "p", "r", "t", "u", "x", "y" >>

Digits == << "0", "1", "2", "3", "4", "5", "6", "7", "8", "9" >>

\* A sequence given as a function, as an explicit tuple.
Tuple(f) == SubSeq(f, 1, Len(f))

OrdTable ==
    [c \in {Alphabet[i] : i \in 1..Len(Alphabet)} |->
        CHOOSE i \in 1..Len(Alphabet) : Alphabet[i] = c]

Ord(c) == OrdTable[c]

IsDigit(c) == \E i \in 1..Len(Digits) : Digits[i] = c

DigitVal(c) == (CHOOSE i \in 1..Len(Digits) : Digits[i] = c) - 1

\* Python's str comparison: lexicographic by code point.
RECURSIVE StrLess(_, _)
StrLess(a, b) ==
    IF b = << >> THEN FALSE
    ELSE IF a = << >> THEN TRUE
    ELSE IF Head(a) = Head(b) THEN StrLess(Tail(a), Tail(b))
    ELSE Ord(Head(a)) < Ord(Head(b))

\* int(text) for a text of digits.
RECURSIVE ParseInt(_)
ParseInt(s) ==
    IF s = << >> THEN 0
    ELSE ParseInt(SubSeq(s, 1, Len(s) - 1)) * 10 + DigitVal(s[Len(s)])

\* str(n) for n >= 0.
RECURSIVE FormatInt(_)
FormatInt(n) ==
    IF n < 10 THEN << Digits[n + 1] >>
    ELSE FormatInt(n \div 10) \o << Digits[(n % 10) + 1] >>

\* The parser's test for an integer column cell.
IsIntText(s) == s # << >> /\ \A i \in 1..Len(s) : IsDigit(s[i])

(***************************************************************************)
(* Cells.                                                                  *)
(***************************************************************************)
IntCell(n) == [t |-> "int", n |-> n]
StrCell(s) == [t |-> "str", s |-> s]

IsInt(c) == c.t = "int"

\* The order of min(), max() and of the sorted result of mode() on a column
\* of one dtype.
CellLess(a, b) ==
    IF IsInt(a) /\ IsInt(b) THEN a.n < b.n
    ELSE IF ~IsInt(a) /\ ~IsInt(b) THEN StrLess(a.s, b.s)
    ELSE IsInt(a)

(***************************************************************************)
(* CSV writing: DataFrame.to_csv(path, index=False).                       *)
(***************************************************************************)
NeedsQuote(s) == \E i \in 1..Len(s) : s[i] \in {",", "\""}

RECURSIVE DoubleQuotes(_)
DoubleQuotes(s) ==
    IF s = << >> THEN << >>
    ELSE IF Head(s) = "\"" THEN << "\"", "\"" >> \o DoubleQuotes(Tail(s))
    ELSE << Head(s) >> \o DoubleQuotes(Tail(s))

\* csv.QUOTE_MINIMAL
WriteField(s) ==
    IF NeedsQuote(s) THEN << "\"" >> \o DoubleQuotes(s) \o << "\"" >> ELSE s

FormatCell(c) == IF IsInt(c) THEN FormatInt(c.n) ELSE c.s

RECURSIVE JoinFields(_)
JoinFields(fields) ==
    IF fields = << >> THEN << >>
    ELSE IF Len(fields) = 1 THEN WriteField(fields[1])
    ELSE WriteField(Head(fields)) \o << "," >> \o JoinFields(Tail(fields))

\* index=False: the header line, then one line per row, no index column.
to_csv(df) ==
    << JoinFields(df.columns) >> \o
    Tuple([i \in 1..Len(df.data) |->
        JoinFields(Tuple([j \in 1..Len(df.data[i]) |-> FormatCell(df.data[i][j])]))])

(***************************************************************************)
(* CSV reading: pd.read_csv(path).                                         *)
(***************************************************************************)
\* The k-th smallest element of a set of numbers.
Nth(S, k) == CHOOSE i \in S : Cardinality({j \in S : j <= i}) = k

QuotesIn(s, from, to) == Cardinality({i \in from..to : s[i] = "\""})

\* The text of a quoted field: each doubled quote stands for one quote.
Unescape(s) ==
    LET kept == {i \in 1..Len(s) : s[i] # "\"" \/ QuotesIn(s, 1, i) % 2 = 1}
    IN  Tuple([k \in 1..Cardinality(kept) |-> s[Nth(kept, k)]])

\* The fields of a line from position p on.  A field that starts with a
\* quote runs to its closing quote, any other field to the next comma.
RECURSIVE ReadFrom(_, _)
ReadFrom(s, p) ==
    IF p > Len(s) THEN << << >> >>
    ELSE IF s[p] = "\""
    THEN LET close == Nth({q \in (p + 1)..Len(s) :
                            /\ s[q] = "\""
                            /\ QuotesIn(s, p + 1, q) % 2 = 1
                            /\ (q = Len(s) \/ s[q + 1] # "\"")}, 1)
             field == Unescape(SubSeq(s, p + 1, close - 1))
         IN  IF close = Len(s) THEN << field >>
             ELSE << field >> \o ReadFrom(s, close + 2)
    ELSE LET commas == {q \in p..Len(s) : s[q] = ","}
             stop   == IF commas = {} THEN Len(s) + 1 ELSE Nth(commas, 1)
             field  == SubSeq(s, p, stop - 1)
         IN  IF stop > Len(s) THEN << field >>
             ELSE << field >> \o ReadFrom(s, stop + 1)

ReadFields(line) == ReadFrom(line, 1)

\* Column type inference: a column whose every cell is an integer text is
\* read as int64, any other column as text (object).
read_csv(lines) ==
    LET header == ReadFields(lines[1])
        raw    == Tuple([i \in 1..(Len(lines) - 1) |-> ReadFields(lines[i + 1])])
        IntCol(j) == raw # << >> /\ \A i \in 1..Len(raw) : IsIntText(raw[i][j])
        kinds  == Tuple([j \in 1..Len(header) |-> IntCol(j)])
    IN  [columns |-> header,
         index   |-> Tuple([i \in 1..Len(raw) |-> i - 1]),
         data    |-> Tuple([i \in 1..Len(raw) |->
                        Tuple([j \in 1..Len(header) |->
                            IF kinds[j] THEN IntCell(ParseInt(raw[i][j]))
                            ELSE StrCell(raw[i][j])])])]

(***************************************************************************)
(* The source files of the model.  Imports_Exports_Dataset.csv is not part *)
(* of the repository; the model's source files are the first rows of two   *)
(* tables that carry eight of its columns.                                 *)
(***************************************************************************)
cCountry == <<"C","o","u","n","t","r","y">>
cProduct == <<"P","r","o","d","u","c","t">>
cImport_Export == <<"I","m","p","o","r","t","_","E","x","p","o","r","t">>
cQuantity == <<"Q","u","a","n","t","i","t","y">>
cValue == <<"V","a","l","u","e">>
cWeight == <<"W","e","i","g","h","t">>
cShipping_Method == <<"S","h","i","p","p","i","n","g","_","M","e","t","h","o","d">>
cSupplier == <<"S","u","p","p","l","i","e","r">>

Columns ==
    << cCountry, cProduct, cImport_Export, cQuantity, cValue, cWeight,
       cShipping_Method, cSupplier >>

All    == StrCell(<<"A","l","l">>)
Import == StrCell(<<"I","m","p","o","r","t">>)
Export == StrCell(<<"E","x","p","o","r","t">>)

\* Three countries, two products of which one reads as a number.
\* Country, Product, Import_Export, Quantity, Value, Weight, Shipping_Method, Supplier
TableA ==
    << << <<"I","n","d","i","a">>, <<"t","e","a">>, <<"E","x","p","o","r","t">>,
          <<"1","2">>, <<"9","0">>, <<"7">>, <<"S","e","a">>, <<"K","i","m",","," ","L","e","e">> >>,
       << <<"U","S","A">>, <<"7","4","7">>, <<"I","m","p","o","r","t">>,
          <<"5">>, <<"4","0">>, <<"3","0">>, <<"A","i","r">>, <<"R","o","y">> >>,
       << <<"I","n","d","i","a">>, <<"7","4","7">>, <<"E","x","p","o","r","t">>,
          <<"8">>, <<"1","5">>, <<"2">>, <<"L","a","n","d">>, <<"R","o","y">> >>,
       << <<"C","h","i","l","e">>, <<"t","e","a">>, <<"E","x","p","o","r","t">>,
          <<"2","0">>, <<"3","3">>, <<"9">>, <<"S","e","a">>, <<"R","o","y">> >>,
       << <<"U","S","A">>, <<"t","e","a">>, <<"I","m","p","o","r","t">>,
          <<"7">>, <<"9","0">>, <<"4">>, <<"S","e","a">>, <<"A","l"," ","\"","J","o","\"">> >>,
       << <<"I","n","d","i","a">>, <<"t","e","a">>, <<"I","m","p","o","r","t">>,
          <<"3">>, <<"1","8">>, <<"1","1">>, <<"A","i","r">>, <<"K","i","m",","," ","L","e","e">> >>,
       << <<"U","S","A">>, <<"7","4","7">>, <<"E","x","p","o","r","t">>,
          <<"1","2">>, <<"6","0">>, <<"6">>, <<"L","a","n","d">>, <<"R","o","y">> >>,
       << <<"C","h","i","l","e">>, <<"t","e","a">>, <<"I","m","p","o","r","t">>,
          <<"9">>, <<"2","5">>, <<"1","3">>, <<"A","i","r">>, <<"K","i","m",","," ","L","e","e">> >>,
       << <<"I","n","d","i","a">>, <<"7","4","7">>, <<"I","m","p","o","r","t">>,
          <<"4">>, <<"7","0">>, <<"5">>, <<"A","i","r">>, <<"R","o","y">> >>,
       << <<"U","S","A">>, <<"t","e","a">>, <<"E","x","p","o","r","t">>,
          <<"1","5">>, <<"1","0">>, <<"8">>, <<"L","a","n","d">>, <<"A","l"," ","\"","J","o","\"">> >>,
       << <<"I","n","d","i","a">>, <<"t","e","a">>, <<"E","x","p","o","r","t">>,
          <<"6">>, <<"5","5">>, <<"3">>, <<"S","e","a">>, <<"R","o","y">> >>,
       << <<"U","S","A">>, <<"7","4","7">>, <<"E","x","p","o","r","t">>,
          <<"1","0">>, <<"2","0">>, <<"1","2">>, <<"A","i","r">>, <<"K","i","m",","," ","L","e","e">> >>,
       << <<"C","h","i","l","e">>, <<"t","e","a">>, <<"I","m","p","o","r","t">>,
          <<"2">>, <<"4","5">>, <<"1","0">>, <<"L","a","n","d">>, <<"R","o","y">> >> >>

\* Six countries, one product.
\* Country, Product, Import_Export, Quantity, Value, Weight, Shipping_Method, Supplier
TableB ==
    << << <<"P","e","r","u">>, <<"o","i","l">>, <<"I","m","p","o","r","t">>,
          <<"3">>, <<"1","8">>, <<"1","1">>, <<"L","a","n","d">>, <<"R","o","y">> >>,
       << <<"F","i","j","i">>, <<"o","i","l">>, <<"E","x","p","o","r","t">>,
          <<"6">>, <<"5","5">>, <<"3">>, <<"L","a","n","d">>, <<"R","o","y">> >>,
       << <<"C","u","b","a">>, <<"o","i","l">>, <<"I","m","p","o","r","t">>,
          <<"2">>, <<"4","5">>, <<"1","0">>, <<"A","i","r">>, <<"K","i","m",","," ","L","e","e">> >>,
       << <<"P","e","r","u">>, <<"o","i","l">>, <<"E","x","p","o","r","t">>,
          <<"1","5">>, <<"1","0">>, <<"8">>, <<"S","e","a">>, <<"R","o","y">> >>,
       << <<"I","n","d","i","a">>, <<"o","i","l">>, <<"I","m","p","o","r","t">>,
          <<"1","1">>, <<"3","5">>, <<"1">>, <<"L","a","n","d">>, <<"R","o","y">> >>,
       << <<"F","i","j","i">>, <<"o","i","l">>, <<"I","m","p","o","r","t">>,
          <<"1">>, <<"8","0">>, <<"1","4">>, <<"S","e","a">>, <<"K","i","m",","," ","L","e","e">> >>,
       << <<"C","h","i","l","e">>, <<"o","i","l">>, <<"E","x","p","o","r","t">>,
          <<"1","4">>, <<"6","5">>, <<"1","5">>, <<"L","a","n","d">>, <<"R","o","y">> >>,
       << <<"U","S","A">>, <<"o","i","l">>, <<"E","x","p","o","r","t">>,
          <<"1","0">>, <<"2","0">>, <<"1","2">>, <<"S","e","a">>, <<"R","o","y">> >>,
       << <<"P","e","r","u">>, <<"o","i","l">>, <<"I","m","p","o","r","t">>,
          <<"9">>, <<"2","5">>, <<"1","3">>, <<"A","i","r">>, <<"R","o","y">> >>,
       << <<"C","u","b","a">>, <<"o","i","l">>, <<"E","x","p","o","r","t">>,
          <<"4">>, <<"7","0">>, <<"5">>, <<"A","i","r">>, <<"R","o","y">> >>,
       << <<"F","i","j","i">>, <<"o","i","l">>, <<"E","x","p","o","r","t">>,
          <<"1","2">>, <<"6","0">>, <<"6">>, <<"L","a","n","d">>, <<"K","i","m",","," ","L","e","e">> >>,
       << <<"P","e","r","u">>, <<"o","i","l">>, <<"I","m","p","o","r","t">>,
          <<"7">>, <<"9","0">>, <<"4">>, <<"S","e","a">>, <<"R","o","y">> >>,
       << <<"U","S","A">>, <<"o","i","l">>, <<"I","m","p","o","r","t">>,
          <<"5">>, <<"4","0">>, <<"3","0">>, <<"A","i","r">>, <<"R","o","y">> >> >>

Tables == {TableA, TableB}

\* The file holding the first n rows of a table under the header line.
SourceFile(table, n) ==
    << JoinFields(Columns) >> \o Tuple([i \in 1..n |-> JoinFields(table[i])])

(***************************************************************************)
(* DataFrame operations.                                                   *)
(***************************************************************************)
ColPos(df, name) == CHOOSE j \in 1..Len(df.columns) : df.columns[j] = name

\* df[name]: the column as a sequence of cells, in row order.
Col(df, name) ==
    LET j == ColPos(df, name) IN Tuple([i \in 1..Len(df.data) |-> df.data[i][j]])

\* df.take(locs): the rows at the 1-based positions locs, with their labels.
Take(df, locs) ==
    [columns |-> df.columns,
     index   |-> Tuple([k \in 1..Len(locs) |-> df.index[locs[k]]]),
     data    |-> Tuple([k \in 1..Len(locs) |-> df.data[locs[k]]])]

\* The positions at which a boolean Series is True, ascending.
RECURSIVE Where(_, _)
Where(mask, i) ==
    IF i > Len(mask) THEN << >>
    ELSE IF mask[i] THEN << i >> \o Where(mask, i + 1)
    ELSE Where(mask, i + 1)

\* A filter that sorts its result by index label.
BoolIndexSorted(df, mask) ==
    LET locs   == Where(mask, 1)
        labels == {df.index[locs[j]] : j \in 1..Len(locs)}
    IN  Take(df, Tuple([k \in 1..Cardinality(labels) |->
                    CHOOSE i \in 1..Len(df.index) : df.index[i] = Nth(labels, k)]))

\* df[mask]: boolean indexing.
BoolIndex(df, mask) == Take(df, Where(mask, 1))

\* A default view that shows the whole frame.
WholeFrame(df, k) == df

\* df.head(k)
head(df, k) ==
    Take(df, Tuple([i \in 1..(IF Len(df.data) < k THEN Len(df.data) ELSE k) |-> i]))

\* df[[names]]: the projection on the named columns.
Project(df, names) ==
    [columns |-> names,
     index   |-> df.index,
     data    |-> Tuple([i \in 1..Len(df.data) |->
                    Tuple([k \in 1..Len(names) |-> df.data[i][ColPos(df, names[k])]])])]

Range(seq) == {seq[i] : i \in 1..Len(seq)}

\* Series.unique(): the distinct values in order of first appearance.
RECURSIVE unique(_)
unique(col) ==
    IF col = << >> THEN << >>
    ELSE LET init == unique(SubSeq(col, 1, Len(col) - 1))
             last == col[Len(col)]
         IN  IF last \in Range(init) THEN init ELSE Append(init, last)

\* Series.nunique()
nunique(col) == Cardinality(Range(col))

Count(col, v) == Cardinality({i \in 1..Len(col) : col[i] = v})

\* Series.isin(values)
isin(col, values) == Tuple([i \in 1..Len(col) |-> col[i] \in values])

\* Series == value
eq(col, v) == Tuple([i \in 1..Len(col) |-> col[i] = v])

\* A filter that joins its constraints with | in place of &.
Or(a, b) == Tuple([i \in 1..Len(a) |-> a[i] \/ b[i]])

\* a & b, where the scalar True is broadcast over the rows.
AllTrue(df) == Tuple([i \in 1..Len(df.data) |-> TRUE])
And(a, b) == Tuple([i \in 1..Len(a) |-> a[i] /\ b[i]])

\* Ascending insertion sort of cells of one dtype.
RECURSIVE SortCells(_)
InsertCell(sorted, c) ==
    LET k == Cardinality({i \in 1..Len(sorted) : ~CellLess(c, sorted[i])})
    IN  SubSeq(sorted, 1, k) \o << c >> \o SubSeq(sorted, k + 1, Len(sorted))
SortCells(col) ==
    IF col = << >> THEN << >>
    ELSE InsertCell(SortCells(SubSeq(col, 1, Len(col) - 1)), col[Len(col)])

\* Series.min(), Series.max() of a non-empty column.
min(col) == CHOOSE v \in Range(col) : \A w \in Range(col) : ~CellLess(w, v)
max(col) == CHOOSE v \in Range(col) : \A w \in Range(col) : ~CellLess(v, w)

\* A mode whose result keeps the order of first appearance.
ModeUnsorted(col) ==
    SelectSeq(unique(col),
              LAMBDA v : \A w \in Range(col) : Count(col, w) <= Count(col, v))

\* Series.mode(): the values of the highest frequency, sorted ascending.
mode(col) ==
    LET vals == Range(col)
        top  == {v \in vals : \A w \in vals : Count(col, w) <= Count(col, v)}
    IN  SortCells(SelectSeq(unique(col), LAMBDA v : v \in top))

\* Series.value_counts(): the distinct values with their frequencies, most
\* frequent first; values of equal frequency keep the order of their first
\* appearance (the sort is stable at the model's sizes).
RECURSIVE SortCounts(_)
InsertCount(sorted, e) ==
    LET k == Cardinality({i \in 1..Len(sorted) : sorted[i].count >= e.count})
    IN  SubSeq(sorted, 1, k) \o << e >> \o SubSeq(sorted, k + 1, Len(sorted))
SortCounts(entries) ==
    IF entries = << >> THEN << >>
    ELSE InsertCount(SortCounts(SubSeq(entries, 1, Len(entries) - 1)),
                     entries[Len(entries)])

value_counts(col) ==
    LET u == unique(col)
    IN  SortCounts(Tuple([k \in 1..Len(u) |->
                            [value |-> u[k], count |-> Count(col, u[k])]]))

\* Series.head(k) on a sequence.
FirstN(seq, k) == SubSeq(seq, 1, IF Len(seq) < k THEN Len(seq) ELSE k)

(***************************************************************************)
(* DataFrame.describe() on numeric columns.  A fraction is a record        *)
(* [num, den]; the standard deviation is given by its square, the sample   *)
(* variance (N-1 denominator); an undefined statistic is NaN.              *)
(***************************************************************************)
NaN == "NaN"

RECURSIVE Sum(_)
Sum(xs) == IF xs = << >> THEN 0 ELSE Head(xs) + Sum(Tail(xs))

\* Linear interpolation between order statistics: the k-th quartile of the
\* ascending values xs, as a fraction of denominator 4.
Quartile(xs, k) ==
    LET pos == (Len(xs) - 1) * k
        lo  == (pos \div 4) + 1
        r   == pos % 4
    IN  [num |-> IF r = 0 THEN 4 * xs[lo]
                 ELSE 4 * xs[lo] + r * (xs[lo + 1] - xs[lo]),
         den |-> 4]

describe_column(col) ==
    LET n  == Len(col)
        asc == SortCells(col)
        xs == Tuple([i \in 1..n |-> asc[i].n])
        s1 == Sum(xs)
        s2 == Sum(Tuple([i \in 1..n |-> xs[i] * xs[i]]))
    IN  IF n = 0
        THEN [count |-> 0, mean |-> NaN, var |-> NaN, min |-> NaN,
              q25 |-> NaN, q50 |-> NaN, q75 |-> NaN, max |-> NaN]
        ELSE [count |-> n,
              mean  |-> [num |-> s1, den |-> n],
              var   |-> IF n = 1 THEN NaN
                        ELSE [num |-> n * s2 - s1 * s1, den |-> n * (n - 1)],
              min   |-> xs[1],
              q25   |-> Quartile(xs, 1),
              q50   |-> Quartile(xs, 2),
              q75   |-> Quartile(xs, 3),
              max   |-> xs[n]]

\* df.describe().T: one row of statistics per column of df.
describe(df) ==
    Tuple([k \in 1..Len(df.columns) |->
        [column |-> df.columns[k], stats |-> describe_column(Col(df, df.columns[k]))]])

(***************************************************************************)
(* Loading: pd.read_csv(file_path).sample(n=3001, random_state=55054).     *)
(***************************************************************************)
\* The seeded generator.  NumPy's Mersenne Twister is replaced by a linear
\* congruential generator: like it, a deterministic function of the seed.
NextRandom(x) == (x * 75 + 74) % 65537

\* RandomState.shuffle: for i = n-1 down to 1, swap arr[i] with arr[j], j
\* drawn from 0..i (arr is 0-based in the source, 1-based here).
RECURSIVE Shuffle(_, _, _)
Shuffle(arr, i, x) ==
    IF i < 1 THEN arr
    ELSE LET y == NextRandom(x)
             j == y % (i + 1)
         IN  Shuffle([arr EXCEPT ![i + 1] = arr[j + 1], ![j + 1] = arr[i + 1]],
                     i - 1, y)

\* RandomState(seed).permutation(n): a permutation of 0 .. n-1.
permutation(n, seed) == Shuffle(Tuple([i \in 1..n |-> i - 1]), n - 1, seed)

\* DataFrame.sample(n, random_state): without replacement; raises ValueError
\* when n exceeds the number of rows.
CanSample(df, n) == n <= Len(df.data)

sample(df, n, seed) ==
    LET perm == permutation(Len(df.data), seed)
    IN  Take(df, Tuple([k \in 1..n |-> perm[k] + 1]))

(***************************************************************************)
(* The script, page by page.                                               *)
(***************************************************************************)
Pages ==
    << "Welcome Page", "Data Preview", "Analysis Dashboard",
       "Key Observations and Insights" >>

\* Line 8.  A load that raises leaves sample_df unbound; the exception is
\* FileNotFoundError (no file) or ValueError (the sample is larger than the
\* file).
Raised(exc) == [unbound |-> TRUE, raised |-> exc]

\* A load that falls back on the rows the file has.
LoadWhatThereIs(files) ==
    IF ~files[file_path].exists THEN Raised("FileNotFoundError")
    ELSE LET df == read_csv(files[file_path].lines)
         IN  sample(df, IF CanSample(df, SampleSize) THEN SampleSize
                        ELSE Len(df.data), Seed)

Load(files) ==
    IF ~files[file_path].exists THEN Raised("FileNotFoundError")
    ELSE LET df == read_csv(files[file_path].lines)
         IN  IF ~CanSample(df, SampleSize) THEN Raised("ValueError")
             ELSE sample(df, SampleSize, Seed)

\* Lines 34-35 and 74: the options the selectors offer.
CountryOptions(df) == unique(Col(df, cCountry))
ProductOptions(df) == << All >> \o unique(Col(df, cProduct))
AnalysisCountryOptions(df) == << All >> \o unique(Col(df, cCountry))
ImportExportOptions == << All, Import, Export >>

\* Lines 38-46: the Data Preview filter.
PreviewActive(countries, product) == countries # {} \/ product # All

PreviewFilter(df, countries, product) ==
    IF PreviewActive(countries, product)
    THEN BoolIndex(df,
            And(IF countries # {} THEN isin(Col(df, cCountry), countries)
                ELSE AllTrue(df),
                IF product # All THEN eq(Col(df, cProduct), product)
                ELSE AllTrue(df)))
    ELSE head(df, HeadRows)

PreviewSubheader(countries, product) ==
    IF PreviewActive(countries, product) THEN "Filtered Data"
    ELSE "First 10 Rows of Data"

\* A summary that raises on a frame without rows.
SummaryOfRows(df) ==
    IF Len(df.data) = 0 THEN Raised("ValueError")
    ELSE [rows |-> describe(Project(df, << cQuantity, cValue, cWeight >>))]

\* Line 53.
Summary(df) == [rows |-> describe(Project(df, << cQuantity, cValue, cWeight >>))]

\* Lines 66-70: the metric cards.
Metrics(df) ==
    [total_records     |-> Len(df.data),
     unique_products   |-> nunique(Col(df, cProduct)),
     unique_countries  |-> nunique(Col(df, cCountry)),
     most_used_shipping_method |-> mode(Col(df, cShipping_Method))[1],
     top_product       |-> mode(Col(df, cProduct))[1]]

\* Lines 77-81: the Analysis Dashboard filter.
AnalysisFilter(df, country, choice) ==
    LET copy == df
        step == IF country # All
                THEN BoolIndex(copy, eq(Col(copy, cCountry), country))
                ELSE copy
    IN  IF choice # All
        THEN BoolIndex(step, eq(Col(step, cImport_Export), choice))
        ELSE step

\* Line 91.
TopCountries(df) == [bars |-> FirstN(value_counts(Col(df, cCountry)), TopN)]

\* Lines 145-170: of the nine fields the model carries five.
MinMaxFields == << cCountry, cProduct, cImport_Export, cShipping_Method, cSupplier >>

MinMaxTable(df) ==
    [rows |-> Tuple([k \in 1..Len(MinMaxFields) |->
                [Field   |-> MinMaxFields[k],
                 Minimum |-> min(Col(df, MinMaxFields[k])),
                 Maximum |-> max(Col(df, MinMaxFields[k]))]])]

\* A dashboard whose record and country cards count the filtered view.
AnalysisPageOverView(df, country, choice) ==
    LET view == AnalysisFilter(df, country, choice)
    IN  [metrics       |-> [Metrics(df) EXCEPT
                               !.total_records = Len(view.data),
                               !.unique_countries = nunique(Col(view, cCountry))],
         filtered_data |-> view,
         top_countries |-> TopCountries(view),
         min_max_table |-> MinMaxTable(df)]

\* Lines 61-179: what the Analysis Dashboard computes from the Dataset and
\* its two selectors.
AnalysisPage(df, country, choice) ==
    LET view == AnalysisFilter(df, country, choice)
    IN  [metrics       |-> Metrics(df),
         filtered_data |-> view,
         top_countries |-> TopCountries(view),
         min_max_table |-> MinMaxTable(df)]

NoAnalysis ==
    [metrics |-> Unbound, filtered_data |-> Unbound, top_countries |-> Unbound,
     min_max_table |-> Unbound]

\* What a run shows, in order.  A run that raises shows what it rendered
\* before the exception, and Streamlit shows the exception in its place.
Sidebar == << "sidebar.title: Navigation", "sidebar.selectbox: Select Page" >>
Footer  == << "sidebar.info: Developed by" >>

WelcomeScreen == << "title: Welcome", "markdown: Purpose" >>

\* summarised: describe (line 53) returned; when it raises, the run ends
\* before the table and the button.
PreviewScreen(countries, product, summarised) ==
    << "title: Data Preview Dashboard",
       "sidebar.multiselect: Select Countries",
       "sidebar.selectbox: Select Product",
       "subheader: " \o PreviewSubheader(countries, product),
       "dataframe: filtered_df",
       "subheader: Summary Statistics" >>
    \o (IF summarised
        THEN << "table: summary_df", "button: Save Filtered Data" >>
        ELSE << >>)

AnalysisScreen ==
    << "title: Comprehensive Analysis Dashboard",
       "metric: Total Records", "metric: Unique Products",
       "metric: Unique Countries", "metric: Most Used Shipping Method",
       "metric: Top Product",
       "sidebar.title: Filters", "sidebar.selectbox: Country",
       "sidebar.radio: Import/Export",
       "subheader: Data Visualizations",
       "pyplot: Top 5 Countries by Volume",
       "pyplot: static heatmap", "pyplot: static stacked bars",
       "pyplot: static pie",
       "subheader: Minimum and Maximum Values",
       "table: Minimum Values", "table: Maximum Values" >>

InsightsScreen == << "title: Key Observations and Insights", "markdown: Summary" >>

PageScreen(pg, countries, product, summarised) ==
    IF pg = "Welcome Page" THEN WelcomeScreen
    ELSE IF pg = "Data Preview" THEN PreviewScreen(countries, product, summarised)
    ELSE IF pg = "Analysis Dashboard" THEN AnalysisScreen
    ELSE InsightsScreen

Success == "success: Filtered data saved as 'Filtered_Data.csv'"

(***************************************************************************)
(* State.  fs is the working directory; the widget values are those of the *)
(* session; the other variables are the script's variables as the last run *)
(* left them (Unbound when the run did not assign them), what it showed    *)
(* (screen) and the exception that ended it (error, "none" when it ran to  *)
(* its end).                                                               *)
(***************************************************************************)
VARIABLES fs, page, selected_countries, selected_product, selected_country,
          import_export_choice, sample_df, filtered_df, summary_df, metrics,
          filtered_data, top_countries, min_max_table, screen, error

widgets == << page, selected_countries, selected_product, selected_country,
              import_export_choice >>

vars == << fs, page, selected_countries, selected_product, selected_country,
           import_export_choice, sample_df, filtered_df, summary_df, metrics,
           filtered_data, top_countries, min_max_table, screen, error >>

\* The lengths of the source files: one row short of the sample, and more
\* rows than the sample.
SourceLengths == {SampleSize - 1, SampleSize + 1}

\* One run of the script under the new widget values.  click: the run was
\* triggered by the Save button; diskOk: the working directory accepts the
\* write.
Script(click, diskOk) ==
    LET saving == page' = "Data Preview" /\ click
    IN  /\ sample_df' = Load(fs)
        /\ filtered_df' =
              IF Bound(sample_df') /\ page' = "Data Preview"
              THEN PreviewFilter(sample_df', selected_countries', selected_product')
              ELSE Unbound
        /\ summary_df' = IF Bound(filtered_df') THEN Summary(filtered_df') ELSE Unbound
        /\ fs' = IF Bound(summary_df') /\ saving /\ diskOk
                 THEN [fs EXCEPT ![out_path] = File(to_csv(filtered_df'))]
                 ELSE fs
        /\ LET shown == IF Bound(sample_df') /\ page' = "Analysis Dashboard"
                        THEN AnalysisPage(sample_df', selected_country',
                                          import_export_choice')
                        ELSE NoAnalysis
           IN  /\ metrics' = shown.metrics
               /\ filtered_data' = shown.filtered_data
               /\ top_countries' = shown.top_countries
               /\ min_max_table' = shown.min_max_table
        /\ error' = IF ~Bound(sample_df') THEN sample_df'.raised
                    ELSE IF Bound(filtered_df') /\ ~Bound(summary_df')
                    THEN summary_df'.raised
                    ELSE IF saving /\ ~diskOk THEN "OSError"
                    ELSE "none"
        /\ screen' =
              IF ~Bound(sample_df') THEN << >>
              ELSE Sidebar
                   \o PageScreen(page', selected_countries', selected_product',
                                 Bound(summary_df'))
                   \o (IF Bound(summary_df') /\ saving /\ diskOk
                       THEN << Success >> ELSE << >>)
                   \o (IF error' = "none" THEN Footer ELSE << >>)

\* The first run of a session: every widget at its default.
Init ==
    /\ \E table \in Tables, n \in SourceLengths, present \in BOOLEAN :
          fs = [f \in {file_path, out_path} |->
                  IF f = file_path /\ present THEN File(SourceFile(table, n))
                  ELSE NoFile]
    /\ page = "Welcome Page"
    /\ selected_countries = {}
    /\ selected_product = All
    /\ selected_country = All
    /\ import_export_choice = All
    /\ sample_df = Load(fs)
    /\ filtered_df = Unbound
    /\ summary_df = Unbound
    /\ metrics = Unbound
    /\ filtered_data = Unbound
    /\ top_countries = Unbound
    /\ min_max_table = Unbound
    /\ error = IF Bound(sample_df) THEN "none" ELSE sample_df.raised
    /\ screen = IF Bound(sample_df) THEN Sidebar \o WelcomeScreen \o Footer ELSE << >>

\* The page selector (line 15).  The widgets of the page left are no longer
\* rendered, so Streamlit drops their values: a page starts at its defaults.
SelectPage(p) ==
    /\ Bound(sample_df)
    /\ p # page
    /\ page' = p
    /\ selected_countries' = {}
    /\ selected_product' = All
    /\ selected_country' = All
    /\ import_export_choice' = All
    /\ Script(FALSE, TRUE)

\* The country multiselect (line 34): c is added or removed.
ToggleCountry(c) ==
    /\ Bound(sample_df)
    /\ page = "Data Preview"
    /\ selected_countries' =
          IF c \in selected_countries THEN selected_countries \ {c}
          ELSE selected_countries \cup {c}
    /\ Cardinality(selected_countries') <= MaxSelected
    /\ UNCHANGED << page, selected_product, selected_country, import_export_choice >>
    /\ Script(FALSE, TRUE)

\* The product selector (line 35).
SelectProduct(p) ==
    /\ Bound(sample_df)
    /\ page = "Data Preview"
    /\ p # selected_product
    /\ selected_product' = p
    /\ UNCHANGED << page, selected_countries, selected_country, import_export_choice >>
    /\ Script(FALSE, TRUE)

\* The Save Filtered Data button (line 57).
PressSave(diskOk) ==
    /\ Bound(sample_df)
    /\ page = "Data Preview"
    /\ UNCHANGED widgets
    /\ Script(TRUE, diskOk)

\* The Analysis country selector (line 74).
SelectCountry(c) ==
    /\ Bound(sample_df)
    /\ page = "Analysis Dashboard"
    /\ c # selected_country
    /\ selected_country' = c
    /\ UNCHANGED << page, selected_countries, selected_product, import_export_choice >>
    /\ Script(FALSE, TRUE)

\* The Import/Export radio (line 75).
SelectImportExport(x) ==
    /\ Bound(sample_df)
    /\ page = "Analysis Dashboard"
    /\ x # import_export_choice
    /\ import_export_choice' = x
    /\ UNCHANGED << page, selected_countries, selected_product, selected_country >>
    /\ Script(FALSE, TRUE)

\* The user reruns the script with the widgets as they are.
Rerun ==
    /\ UNCHANGED widgets
    /\ Script(FALSE, TRUE)

\* The options on offer: those of the widgets the last run rendered.
Offered(options) == IF Bound(sample_df) THEN Range(options) ELSE {}

Next ==
    \/ \E p \in Range(Pages) : SelectPage(p)
    \/ \E c \in Offered(CountryOptions(sample_df)) : ToggleCountry(c)
    \/ \E p \in Offered(ProductOptions(sample_df)) : SelectProduct(p)
    \/ \E diskOk \in BOOLEAN : PressSave(diskOk)
    \/ \E c \in Offered(AnalysisCountryOptions(sample_df)) : SelectCountry(c)
    \/ \E x \in Range(ImportExportOptions) : SelectImportExport(x)
    \/ Rerun

Spec == Init /\ [][Next]_vars

(***************************************************************************)
(* Vocabulary of the properties.                                           *)
(***************************************************************************)
Preview  == Bound(filtered_df)
Analysis == Bound(filtered_data)

\* The cell of row i of df in the named column.
CellAt(df, i, name) == df.data[i][ColPos(df, name)]

\* The rows of df, each with its index label.
Records(df) == {<< df.index[i], df.data[i] >> : i \in 1..Len(df.data)}

\* Row i of df satisfies the predicate {country_set, product, import_export}.
Satisfies(df, i, country_set, product, import_export) ==
    /\ country_set = {} \/ CellAt(df, i, cCountry) \in country_set
    /\ product = All \/ CellAt(df, i, cProduct) = product
    /\ import_export = All \/ CellAt(df, i, cImport_Export) = import_export

Matching(df, country_set, product, import_export) ==
    {<< df.index[i], df.data[i] >> :
        i \in {j \in 1..Len(df.data) :
                 Satisfies(df, j, country_set, product, import_export)}}

\* The predicate the Analysis selectors stand for.
AnalysisCountrySet == IF selected_country = All THEN {} ELSE {selected_country}
AnalysisActive == selected_country # All \/ import_export_choice # All

\* The position in df of the row labelled l.
PositionOf(df, l) == CHOOSE i \in 1..Len(df.index) : df.index[i] = l

\* view holds rows of df, each once, in df's order.
IsSubsequenceOf(view, df) ==
    /\ view.columns = df.columns
    /\ Len(view.index) = Len(view.data)
    /\ \A k \in 1..Len(view.data) :
          /\ view.index[k] \in Range(df.index)
          /\ view.data[k] = df.data[PositionOf(df, view.index[k])]
          /\ k > 1 => PositionOf(df, view.index[k - 1]) < PositionOf(df, view.index[k])

\* view is the first k rows of df (all of df when it has fewer).
IsFirstRowsOf(view, df, k) ==
    LET m == IF Len(df.data) < k THEN Len(df.data) ELSE k
    IN  /\ view.columns = df.columns
        /\ view.index = SubSeq(df.index, 1, m)
        /\ view.data = SubSeq(df.data, 1, m)

\* view is all of df.
IsAllOf(view, df) ==
    view.columns = df.columns /\ view.index = df.index /\ view.data = df.data

(***************************************************************************)
(* C1.  With at least one active constraint the filter returns exactly the *)
(* records of the Dataset that satisfy every active constraint: on the     *)
(* Data Preview page the country set and the product, on the Analysis      *)
(* Dashboard the country and the import/export choice.                     *)
(***************************************************************************)
C1_FilterExact ==
    /\ (Preview /\ PreviewActive(selected_countries, selected_product)) =>
          Records(filtered_df) =
             Matching(sample_df, selected_countries, selected_product, All)
    /\ (Analysis /\ AnalysisActive) =>
          Records(filtered_data) =
             Matching(sample_df, AnalysisCountrySet, All, import_export_choice)

\* Two countries and a product are selected; some records match and some
\* records of the selected countries do not.
C1_Witness ==
    /\ Preview
    /\ Cardinality(selected_countries) = 2
    /\ selected_product # All
    /\ Len(filtered_df.data) > 0
    /\ Len(filtered_df.data) <
          Cardinality(Matching(sample_df, selected_countries, All, All))

(***************************************************************************)
(* C2.  Every filter result is a subsequence of the Dataset: each of its   *)
(* records is a record of the Dataset, none occurs twice, and they keep    *)
(* the Dataset's order.  This holds for the Preview filter, the first-10   *)
(* default view and the Analysis filter.                                   *)
(***************************************************************************)
C2_Subsequence ==
    /\ Preview => IsSubsequenceOf(filtered_df, sample_df)
    /\ Analysis => IsSubsequenceOf(filtered_data, sample_df)

\* A filtered view of at least two records whose index labels are not in
\* ascending order: the Dataset's order is not the order of the labels.
C2_Witness ==
    /\ Preview
    /\ PreviewActive(selected_countries, selected_product)
    /\ \E k \in 2..Len(filtered_df.index) :
          filtered_df.index[k] < filtered_df.index[k - 1]

(***************************************************************************)
(* C3 as stated.  With no active predicate the filter yields exactly the   *)
(* first 10 records of the Dataset wherever it is used.                    *)
(***************************************************************************)
C3_FirstTenEverywhere ==
    /\ (Preview /\ ~PreviewActive(selected_countries, selected_product)) =>
          IsFirstRowsOf(filtered_df, sample_df, HeadRows)
    /\ (Analysis /\ ~AnalysisActive) =>
          IsFirstRowsOf(filtered_data, sample_df, HeadRows)

(***************************************************************************)
(* C3 amended.  With no active predicate the Data Preview page shows       *)
(* exactly the first 10 records of the Dataset, and the Analysis Dashboard *)
(* filter yields all of the Dataset.                                       *)
(***************************************************************************)
C3_FirstTenOnPreview ==
    /\ (Preview /\ ~PreviewActive(selected_countries, selected_product)) =>
          /\ IsFirstRowsOf(filtered_df, sample_df, HeadRows)
          /\ "subheader: First 10 Rows of Data" \in Range(screen)
    /\ (Analysis /\ ~AnalysisActive) => IsAllOf(filtered_data, sample_df)

\* The default view of a Dataset of more than 10 records.
C3_Witness ==
    /\ Preview
    /\ ~PreviewActive(selected_countries, selected_product)
    /\ Len(sample_df.data) > HeadRows
    /\ Len(filtered_df.data) = HeadRows

(***************************************************************************)
(* C4.  The Dataset is immutable after load: whatever the user does (page  *)
(* selections, filter changes, export presses, reruns), the Dataset of the *)
(* next run has the same records in the same order.                        *)
(***************************************************************************)
C4_DatasetImmutable == [][Bound(sample_df) => sample_df' = sample_df]_vars

\* The filtered data was exported and the user has moved on to the
\* Analysis Dashboard with a selector set.
C4_Witness ==
    /\ fs[out_path].exists
    /\ Analysis
    /\ AnalysisActive

(***************************************************************************)
(* C5 as stated.  The Most Used Shipping Method and Top Product cards show *)
(* the most frequent value, and among several most frequent values the one *)
(* met first in the Dataset's row order.                                   *)
(***************************************************************************)
MostFrequent(col) ==
    {v \in Range(col) : \A w \in Range(col) : Count(col, w) <= Count(col, v)}

FirstMet(col) ==
    col[CHOOSE i \in 1..Len(col) :
          /\ col[i] \in MostFrequent(col)
          /\ \A j \in 1..(i - 1) : col[j] \notin MostFrequent(col)]

Smallest(col) ==
    CHOOSE v \in MostFrequent(col) : \A w \in MostFrequent(col) : ~CellLess(w, v)

C5_ModeFirstInRowOrder ==
    Bound(metrics) =>
        /\ metrics.most_used_shipping_method = FirstMet(Col(sample_df, cShipping_Method))
        /\ metrics.top_product = FirstMet(Col(sample_df, cProduct))

(***************************************************************************)
(* C5 amended.  The two cards show the most frequent value, and among      *)
(* several most frequent values the smallest in the column's ordering      *)
(* (lexicographic for text).                                               *)
(***************************************************************************)
C5_ModeSmallest ==
    Bound(metrics) =>
        /\ metrics.most_used_shipping_method = Smallest(Col(sample_df, cShipping_Method))
        /\ metrics.top_product = Smallest(Col(sample_df, cProduct))

\* Two shipping methods share the highest frequency, and the one met first
\* is not the smallest.
C5_Witness ==
    /\ Bound(metrics)
    /\ Cardinality(MostFrequent(Col(sample_df, cShipping_Method))) > 1
    /\ FirstMet(Col(sample_df, cShipping_Method))
          # Smallest(Col(sample_df, cShipping_Method))

(***************************************************************************)
(* C6.  Round trip: after a successful export, reading Filtered_Data.csv   *)
(* back yields the exported view, column by column and row by row in the   *)
(* same order, whatever the file held before.                              *)
(***************************************************************************)
Exported == Preview /\ Success \in Range(screen)

C6_RoundTrip ==
    Exported =>
        /\ fs[out_path].exists
        /\ read_csv(fs[out_path].lines).columns = filtered_df.columns
        /\ read_csv(fs[out_path].lines).data = filtered_df.data

(***************************************************************************)
(* C7.  An in-session error does not abort the run: once the Dataset is    *)
(* loaded, every run reaches its last statement (the sidebar footer) and   *)
(* ends without an exception, a failed export included.                    *)
(***************************************************************************)
C7_RunNeverAborts ==
    Bound(sample_df) => (error = "none" /\ Footer[1] \in Range(screen))

(***************************************************************************)
(* C8.  Loading either fails or yields a Dataset of exactly sampleSize     *)
(* records drawn without replacement from the source.  A source with fewer *)
(* rows than sampleSize makes the load fail with the insufficient-data     *)
(* error (pandas' ValueError), and the run renders nothing at all.         *)
(***************************************************************************)
Source == read_csv(fs[file_path].lines)

DrawnWithoutReplacement(df, src) ==
    /\ Len(df.data) = SampleSize
    /\ Len(df.index) = SampleSize
    /\ Cardinality(Range(df.index)) = SampleSize
    /\ \A i \in 1..SampleSize :
          /\ df.index[i] \in 0..(Len(src.data) - 1)
          /\ df.data[i] = src.data[df.index[i] + 1]

NothingRendered ==
    /\ screen = << >>
    /\ \A v \in {filtered_df, summary_df, metrics, filtered_data, top_countries,
                 min_max_table} : ~Bound(v)

C8_LoadAllOrNothing ==
    IF Bound(sample_df)
    THEN /\ fs[file_path].exists
         /\ DrawnWithoutReplacement(sample_df, Source)
    ELSE /\ NothingRendered
         /\ error = IF fs[file_path].exists THEN "ValueError" ELSE "FileNotFoundError"
         /\ fs[file_path].exists => Len(Source.data) < SampleSize

\* The source file is there and is one row short of the sample.
C8_Witness ==
    /\ fs[file_path].exists
    /\ Len(fs[file_path].lines) - 1 = SampleSize - 1
    /\ error = "ValueError"
    /\ screen = << >>

(***************************************************************************)
(* C9.  When the Data Preview predicate matches no record, describe        *)
(* returns for each of Quantity, Value and Weight a count of 0 and the     *)
(* undefined marker for every other statistic; it does not raise, and the  *)
(* page shows the summary table and the Save button after it.              *)
(***************************************************************************)
Undefined(stats) ==
    \A f \in {"mean", "var", "min", "q25", "q50", "q75", "max"} : stats[f] = NaN

C9_DescribeEmpty ==
    (Preview /\ Len(filtered_df.data) = 0) =>
        /\ Bound(summary_df)
        /\ Tuple([k \in 1..Len(summary_df.rows) |-> summary_df.rows[k].column])
              = << cQuantity, cValue, cWeight >>
        /\ \A k \in 1..Len(summary_df.rows) :
              /\ summary_df.rows[k].stats.count = 0
              /\ Undefined(summary_df.rows[k].stats)
        /\ error # "ValueError"
        /\ "table: summary_df" \in Range(screen)
        /\ "button: Save Filtered Data" \in Range(screen)

\* A country and a product are selected that no record combines.
C9_Witness ==
    /\ Preview
    /\ selected_countries # {}
    /\ selected_product # All
    /\ Len(filtered_df.data) = 0
    /\ Bound(summary_df)

(***************************************************************************)
(* C10.  On the Analysis Dashboard the five metric cards and the min/max   *)
(* table are those of the whole Dataset, whatever the country and          *)
(* import/export selectors say; the top-countries chart alone follows the  *)
(* selectors: at most 5 countries, the most frequent of the filtered view, *)
(* by descending frequency.                                                *)
(***************************************************************************)
Values(df, name) == {CellAt(df, i, name) : i \in 1..Len(df.data)}

Frequency(df, name, v) ==
    Cardinality({i \in 1..Len(df.data) : CellAt(df, i, name) = v})

IsAModeOf(v, df, name) ==
    /\ v \in Values(df, name)
    /\ \A w \in Values(df, name) : Frequency(df, name, w) <= Frequency(df, name, v)

WholeDatasetMetrics ==
    /\ metrics.total_records = SampleSize
    /\ metrics.unique_products = Cardinality(Values(sample_df, cProduct))
    /\ metrics.unique_countries = Cardinality(Values(sample_df, cCountry))
    /\ IsAModeOf(metrics.most_used_shipping_method, sample_df, cShipping_Method)
    /\ IsAModeOf(metrics.top_product, sample_df, cProduct)

WholeDatasetMinMax ==
    \A k \in 1..Len(min_max_table.rows) :
        LET row == min_max_table.rows[k]
        IN  /\ row.Minimum \in Values(sample_df, row.Field)
            /\ row.Maximum \in Values(sample_df, row.Field)
            /\ \A v \in Values(sample_df, row.Field) :
                  ~CellLess(v, row.Minimum) /\ ~CellLess(row.Maximum, v)

ChartFollowsSelectors ==
    LET bars  == top_countries.bars
        shown == {bars[k].value : k \in 1..Len(bars)}
        all   == Values(filtered_data, cCountry)
    IN  /\ Len(bars) = (IF Cardinality(all) < TopN THEN Cardinality(all) ELSE TopN)
        /\ Cardinality(shown) = Len(bars)
        /\ shown \subseteq all
        /\ \A k \in 1..Len(bars) :
              /\ bars[k].count = Frequency(filtered_data, cCountry, bars[k].value)
              /\ k > 1 => bars[k - 1].count >= bars[k].count
              /\ \A c \in all \ shown :
                    Frequency(filtered_data, cCountry, c) <= bars[k].count

C10_MetricsOverWholeDataset ==
    Analysis => (WholeDatasetMetrics /\ WholeDatasetMinMax /\ ChartFollowsSelectors)

\* A country is selected on the Analysis Dashboard: the chart has its one
\* bar, and the cards still count every country of the Dataset.
C10_Witness ==
    /\ Analysis
    /\ selected_country # All
    /\ Len(top_countries.bars) = 1
    /\ Len(filtered_data.data) < SampleSize
    /\ metrics.unique_countries > 1
    /\ metrics.total_records = SampleSize

\* With both selectors at All the Dataset has more countries than the chart
\* has bars.
C10_Truncated ==
    /\ Analysis
    /\ ~AnalysisActive
    /\ Cardinality(Values(sample_df, cCountry)) > TopN

=============================================================================
